---- MODULE Spec2Model ----
(***************************************************************************)
(* State-machine model of the tagged memory system of a172_core:           *)
(* MemoryTag / BaseMemoryTags (include/memory/memory_system.hpp),          *)
(* MemorySystem and its MemoryMap (the memory-system part of               *)
(* src/string.cpp, lines 285-477) and CAllocator                           *)
(* (src/memory/memory_allocators/c_allocator.cpp).                         *)
(*                                                                         *)
(* Memory is measured in abstract allocation units and addresses are small *)
(* naturals: 0 is nullptr and AddrTop stands for uint64_max, the value     *)
(* CAllocator puts in _start_ptr.  The allocator array is a sequence whose *)
(* length is the length passed to new[]; slot i of the C++ array is        *)
(* element i + 1 of the sequence.                                          *)
(***************************************************************************)
EXTENDS Integers, Sequences, FiniteSets, TLC

\* ------------------------------------------------------------------ bounds
\* Largest value MemoryTag::id_count may reach in Spec (caps NewTag).
MaxIdCount == 1
\* Nesting depth of operator delete after which the recursion is reported
\* as unbounded.
MaxDepth == 2
\* Capacity of the free-list arena the arena specification exercises, in
\* units of one allocation header.
FlCapacity == 4
\* Delegates the Callback tag has room for.
MaxDelegates == 3

\* ------------------------------------------------------- program constants
\* typedef uint16 MemoryTagType
TagBits == 16
\* sizeof(Allocator*): the array elements memcpy counts in bytes
PtrSize == 8
\* nullptr
NullAddr == 0
\* new StackAllocator(KB): the capacity of the Temp arena, in allocation
\* units of one KB.
TempCap == 1
\* new FreeListAllocator(128 * KB, FindFirst): the capacity of the general
\* arena, in allocation units (one unit stands for 64 KB).
GenCap == 2
\* The stack arena a user registers has the size of the Temp arena.
UserCap == TempCap
\* #define KB 1024
KB == 1024
\* #define MEMORY_PADDING 8: the alignment MemorySystem::allocate passes on
MEMORY_PADDING == 8

TagModulus == 2 ^ TagBits
\* MemoryTag::INVALID = MemoryTag((MemoryTagType) -1)
INVALID == TagModulus - 1

\* ---------------------------------------------------------------- helpers
NoTag == 0 - 1
NoAddr == 0 - 1

Min(S) == CHOOSE x \in S : \A y \in S : x <= y
Max(S) == CHOOSE x \in S : \A y \in S : x >= y

MapPut(m, k, v) == [x \in (DOMAIN m) \cup {k} |-> IF x = k THEN v ELSE m[x]]
EmptyMap == [x \in {} |-> 0]

\* ------------------------------------------------------------- allocators
\* The three allocators initialize_allocator_array creates, and one stack
\* allocator the user constructs to register with a tag of their own.
unknown_allocator == "unknown_allocator"
temp_allocator == "temp_allocator"
general_allocator == "general_allocator"
user_allocator == "user_allocator"

Allocators == {unknown_allocator, temp_allocator, general_allocator, user_allocator}
StackAllocators == {temp_allocator, user_allocator}

\* Pointer values an array slot can hold besides the allocators: the nullptr
\* of a value-initialized slot, and a pointer to nothing.
NullPtr == "nullptr"
BadPtr == "bad_ptr"
NoAlloc == "none"

\* Address layout: nullptr, an address below every arena (an object the
\* system owns), the Temp arena, the general arena, a block of the system
\* heap above them, the user's arena and the top address.
SysLow == NullAddr + 1
TempBase == SysLow + 1
GenBase == TempBase + TempCap
SysHigh == GenBase + GenCap
UserBase == SysHigh + 1
AddrTop == UserBase + UserCap
Addrs == NullAddr .. AddrTop
HeapAddrs == {SysHigh}
\* Request sizes: up to a whole arena.
Sizes == 1 .. TempCap

\* Allocator(size) / CAllocator(): _start_ptr = (void*) uint64_max
start(a) ==
    CASE a = unknown_allocator -> AddrTop
      [] a = temp_allocator -> TempBase
      [] a = general_allocator -> GenBase
      [] a = user_allocator -> UserBase

total_size(a) ==
    CASE a = unknown_allocator -> 0
      [] a = temp_allocator -> TempCap
      [] a = general_allocator -> GenCap
      [] a = user_allocator -> UserCap

InRegion(a, p) == start(a) <= p /\ p < start(a) + total_size(a)

\* CAllocator::owns: ptr != nullptr
CAllocatorOwns(p) == p # NullAddr

\* owns of a stack or free-list arena: a range test on its region.
ArenaOwns(a, p) == InRegion(a, p)

\* allocator->owns(ptr), a virtual call
owns(a, p) ==
    IF a = unknown_allocator THEN CAllocatorOwns(p) ELSE ArenaOwns(a, p)

\* ------------------------------------------------------------------- tags
\* MemoryTag() : id(id_count++), on a 16-bit counter.
MemoryTagCtor(count) == [id |-> count, id_count |-> (count + 1) % TagModulus]

BaseTagNames ==
    <<"Unknown", "Temp", "Array", "List", "Map", "Set", "String", "Callback">>

\* MemoryTagStruct() { MemoryTag::id_count = 0; }
MemoryTagStructCtor == 0

RECURSIVE ConstructMembers(_, _)
ConstructMembers(k, count) ==
    IF k = 0 THEN [ids |-> <<>>, id_count |-> count]
    ELSE LET before == ConstructMembers(k - 1, count)
             t == MemoryTagCtor(before.id_count)
         IN [ids |-> Append(before.ids, t.id), id_count |-> t.id_count]

\* The construction of the static BaseMemoryTags object: the base class
\* resets the counter, the eight members take the ids 0..7 in declaration
\* order, and the constructor body sets MemoryTag::id_count = 0 again.
BaseMemoryTagsCtor ==
    LET members == ConstructMembers(Len(BaseTagNames), MemoryTagStructCtor)
    IN [ids |-> members.ids, id_count |-> 0]

BaseMemoryTags(name) ==
    LET i == CHOOSE j \in 1 .. Len(BaseTagNames) : BaseTagNames[j] = name
    IN BaseMemoryTagsCtor.ids[i]

\* -------------------------------------------------------- allocator array
\* new Allocator*[n](): n value-initialized slots.
NewArray(n) == [i \in 1 .. n |-> NullPtr]

\* array[i] = v.  A write at or past the allocated length does not land in
\* the array: it lands in the heap bytes that follow it (st.over).
WriteSlot(st, i, v) ==
    IF i < Len(st.aa)
    THEN [st EXCEPT !.aa[i + 1] = v]
    ELSE [st EXCEPT !.over = MapPut(st.over, i, v)]

\* One registration step of initialize_allocator_array.
\* assign_allocator with memory_map.insert in place of operator[]=: the
\* entry of a base address that is already present is kept.
assign_allocator_keep_first(st, name, a) ==
    LET w == WriteSlot(st, BaseMemoryTags(name), a)
    IN [aa |-> w.aa, over |-> w.over,
        map |-> IF start(a) \in DOMAIN st.map THEN st.map
                ELSE MapPut(st.map, start(a), BaseMemoryTags(name))]

assign_allocator(st, name, a) ==
    LET w == WriteSlot(st, BaseMemoryTags(name), a)
    IN [w EXCEPT !.map = MapPut(w.map, start(a), BaseMemoryTags(name))]

\* initialize_allocator_array, run when MemoryTag::id_count is `count`.
initialize_allocator_array(count) ==
    LET s0 == [aa |-> NewArray(count), over |-> EmptyMap, map |-> EmptyMap]
        s1 == assign_allocator(s0, "Unknown", unknown_allocator)
        s2 == assign_allocator(s1, "Temp", temp_allocator)
        s3 == assign_allocator(s2, "Array", general_allocator)
        s4 == assign_allocator(s3, "List", general_allocator)
        s5 == assign_allocator(s4, "Map", general_allocator)
        s6 == assign_allocator(s5, "Set", general_allocator)
        s7 == assign_allocator(s6, "String", general_allocator)
    IN assign_allocator(s7, "Callback", general_allocator)

\* memcpy(dst, src, nbytes) on arrays of pointers: the first nbytes bytes.
\* A slot reached by only some of its PtrSize bytes keeps zero bytes in the
\* rest: nullptr stays nullptr, any other pointer no longer points anywhere.
memcpy(dst, src, nbytes) ==
    [i \in 1 .. Len(dst) |->
        IF i * PtrSize <= nbytes /\ i <= Len(src) THEN src[i]
        ELSE IF (i - 1) * PtrSize < nbytes /\ i <= Len(src)
             THEN (IF src[i] = NullPtr THEN NullPtr ELSE BadPtr)
        ELSE dst[i]]

\* static MemoryTagType _aa_size: a static member without an initializer
\* in the sources, hence zero-initialized.
InitialAaSize == 0

\* ------------------------------------------------------ arena strategies
\* The stack and the free-list strategy on their own, in their own units:
\* the stack in bytes, the free list in units of one allocation header.
\* MemorySystem::allocate, deallocate and reset_memory forward to them.

\* new StackAllocator(KB)
StackCapacity == KB

\* Bytes that bring `address` to the next multiple of `alignment`.
Padding(address, alignment) == (alignment - (address % alignment)) % alignment

\* A stack that gives the bytes out although the cursor passes the end.
StackAllocatorAllocateUnchecked(cursor, size, alignment) ==
    [ok |-> TRUE, p |-> cursor + Padding(cursor, alignment),
     used |-> cursor + Padding(cursor, alignment) + size]

\* StackAllocator::allocate: the cursor advances by the padding and the
\* size; "arena exhausted" when it would pass the capacity.
StackAllocatorAllocate(cursor, size, alignment) ==
    LET padding == Padding(cursor, alignment)
    IN IF cursor + padding + size > StackCapacity
       THEN [ok |-> FALSE, p |-> NoAddr, used |-> cursor]
       ELSE [ok |-> TRUE, p |-> cursor + padding, used |-> cursor + padding + size]

\* A reset that leaves the cursor where it is.
StackAllocatorResetNothing(cursor) == cursor

\* StackAllocator::reset
StackAllocatorReset(cursor) == 0

\* The allocation header in front of every block of the free list.
HeaderSize == 1

\* A free list: live the allocated blocks, free the chain of free blocks,
\* each block <<offset, length>> with the header counted in the length.
FreeListInit == [live |-> {}, free |-> {<<0, FlCapacity>>}]

\* A reset that leaves the chain as it is.
FreeListAllocatorResetNothing(fl) == fl

\* FreeListAllocator::reset
FreeListAllocatorReset(fl) == FreeListInit

FreeListUsed(fl) ==
    LET RECURSIVE Sum(_)
        Sum(S) == IF S = {} THEN 0
                  ELSE LET b == CHOOSE x \in S : TRUE IN b[2] + Sum(S \ {b})
    IN Sum(fl.live)

\* FreeListAllocator::allocate under FindFirst: the first free block that
\* holds the header and the size, split when what remains is more than a
\* header; the address returned lies just past the header.
FreeListAllocatorAllocate(fl, size) ==
    LET need == size + HeaderSize
        fits == {b \in fl.free : b[2] >= need}
    IN IF fits = {}
       THEN [ok |-> FALSE, p |-> NoAddr, fl |-> fl]
       ELSE LET b == CHOOSE x \in fits : \A y \in fits : x[1] <= y[1]
                split == b[2] - need > HeaderSize
                taken == IF split THEN <<b[1], need>> ELSE b
                rest == IF split THEN {<<b[1] + need, b[2] - need>>} ELSE {}
            IN [ok |-> TRUE, p |-> b[1] + HeaderSize,
                fl |-> [live |-> fl.live \cup {taken},
                        free |-> (fl.free \ {b}) \cup rest]]

\* A free list that chains the freed block without merging it.
InsertOnly(free, b) == free \cup {b}

\* The freed block b goes back to the chain, merged with the free blocks
\* that end where it starts or start where it ends.
Coalesce(free, b) ==
    LET left == {x \in free : x[1] + x[2] = b[1]}
        right == {x \in free : b[1] + b[2] = x[1]}
        lo == IF left = {} THEN b[1] ELSE (CHOOSE x \in left : TRUE)[1]
        hi == IF right = {} THEN b[1] + b[2]
              ELSE LET x == CHOOSE y \in right : TRUE IN x[1] + x[2]
    IN (free \ (left \cup right)) \cup {<<lo, hi - lo>>}

\* FreeListAllocator::free of the address of a live block
FreeListAllocatorFree(fl, p) ==
    LET b == CHOOSE x \in fl.live : x[1] + HeaderSize = p
    IN [live |-> fl.live \ {b}, free |-> Coalesce(fl.free, b)]

\* The addresses of the live blocks of a free list.
LiveAddresses(fl) == {b[1] + HeaderSize : b \in fl.live}

\* The sizes callers ask the stack for, and the free list.
StackSizes == {500, 600, StackCapacity}
FlSizes == 1 .. FlCapacity

\* The number of calls the longest scenario checked consists of.
TraceLength == 5

\* One call on an arena: the strategy, the operation, the size asked, the
\* address passed or returned, whether it succeeded, and used() before and
\* after it.
ArenaCall(kind, op, n, p, ok, before, u) ==
    [kind |-> kind, op |-> op, n |-> n, p |-> p, ok |-> ok,
     before |-> before, used |-> u]

\* The trace is the latest run of calls on one strategy: with one more call
\* on the same strategy it grows, cut to the last TraceLength calls; a call
\* on the other strategy starts it anew.
Traced(trace, call) ==
    LET t == IF trace # <<>> /\ trace[1].kind # call.kind THEN <<call>>
             ELSE Append(trace, call)
    IN IF Len(t) <= TraceLength THEN t
       ELSE SubSeq(t, Len(t) - TraceLength + 1, Len(t))

ArenaInit == [cursor |-> 0, fl |-> FreeListInit, trace |-> <<>>]

\* ------------------------------------------------------------------ Event
\* Event<R(Args...)> and Event<void(Args...)> with one argument; the void
\* event is the same without the result.

\* The functions callers subscribe, and the arguments events are invoked with.
Functions == {"f", "g"}
Arguments == {0, 1}

\* What a callback returns: each function's results differ from the
\* other's, and differ by argument.
CallbackResult(fn, x) == <<fn, x>>

\* The addresses delegates are allocated at.
DelegatePtrs == 1 .. MaxDelegates

\* No delegate was ever constructed at the address.
NoFunction == "none"

\* new (BaseMemoryTags.Callback) DelegateFunction<R, Args...>(callback): the
\* address the free list of the Callback tag gives out under FindFirst, the
\* lowest that is not in use; 0 when there is none.
NewDelegate(delegates) ==
    LET unused == {d \in DelegatePtrs : ~delegates[d].live}
    IN IF unused = {} THEN 0 ELSE CHOOSE d \in unused : \A e \in unused : d <= e

\* *d for a delegate pointer d: the delegate when it is live; when it was
\* deleted, what it held or a fault.
DerefDelegate(delegates, d) ==
    IF delegates[d].live THEN {delegates[d].fn}
    ELSE {delegates[d].fn, "fault"}

\* The loop of remove_delegate from position k on: the position of the first
\* callback equal to the function sought, 0 when iter reaches end(), -1
\* when a comparison faults.
RECURSIVE FindDelegate(_, _, _, _)
FindDelegate(delegates, callbacks, fn, k) ==
    IF k > Len(callbacks) THEN {0}
    ELSE UNION {IF o = "fault" THEN {-1}
                ELSE IF o = fn THEN {k}
                ELSE FindDelegate(delegates, callbacks, fn, k + 1)
                : o \in DerefDelegate(delegates, callbacks[k])}

\* callbacks.erase(iter) for the iter at position k
Erase(callbacks, k) ==
    [i \in 1 .. (Len(callbacks) - 1) |->
        IF i < k THEN callbacks[i] ELSE callbacks[i + 1]]

\* *iter after callbacks.erase(iter): the element that moved to position k,
\* or, past the new end, the one erase left behind.
AfterErase(callbacks, k) ==
    IF k < Len(callbacks) THEN callbacks[k + 1] ELSE callbacks[k]

\* del(p): the destructor and operator delete; deleting what was deleted
\* before faults or passes unnoticed.
del(delegates, d) ==
    IF delegates[d].live
    THEN {[end |-> "ok", delegates |-> [delegates EXCEPT ![d].live = FALSE]]}
    ELSE {[end |-> "ok", delegates |-> delegates],
          [end |-> "fault", delegates |-> delegates]}

\* Event::remove_delegate(callbacks, delegate): callbacks is a parameter by
\* value, so erase works on a copy and the caller's _callbacks stays; the
\* delegate deleted is the one *iter names after the erase.
remove_delegate(delegates, _callbacks, fn) ==
    UNION {IF k = -1
           THEN {[ret |-> "none", end |-> "fault", delegates |-> delegates,
                  callbacks |-> _callbacks]}
           ELSE IF k = 0
           THEN {[ret |-> "Failed", end |-> "ok", delegates |-> delegates,
                  callbacks |-> _callbacks]}
           ELSE {[ret |-> IF r.end = "ok" THEN "Successful" ELSE "none",
                  end |-> r.end, delegates |-> r.delegates,
                  callbacks |-> _callbacks]
                 : r \in del(delegates, AfterErase(_callbacks, k))}
           : k \in FindDelegate(delegates, _callbacks, fn, 1)}

\* The loop of invoke from position k on, after the calls made so far.
RECURSIVE InvokeFrom(_, _, _, _, _)
InvokeFrom(delegates, _callbacks, x, k, calls) ==
    IF k > Len(_callbacks)
    THEN IF calls = <<>>
         THEN {[calls |-> calls, end |-> "ok", result |-> CallbackResult(fn, y)]
               : fn \in Functions, y \in Arguments}
         ELSE {[calls |-> calls, end |-> "ok",
                result |-> CallbackResult(calls[Len(calls)][1], x)]}
    ELSE UNION {IF o = "fault"
                THEN {[calls |-> calls, end |-> "fault", result |-> <<>>]}
                ELSE InvokeFrom(delegates, _callbacks, x, k + 1,
                                Append(calls, <<o, x>>))
                : o \in DerefDelegate(delegates, _callbacks[k])}

\* Event::invoke(arguments...): every callback of _callbacks in turn, result
\* the value of the last; R result starts uninitialized.
invoke(delegates, _callbacks, x) == InvokeFrom(delegates, _callbacks, x, 1, <<>>)

\* The subscriptions less the first of fn.
RECURSIVE Detach(_, _)
Detach(subscribed, fn) ==
    IF subscribed = <<>> THEN <<>>
    ELSE IF Head(subscribed) = fn THEN Tail(subscribed)
    ELSE <<Head(subscribed)>> \o Detach(Tail(subscribed), fn)

\* One call on the event.
EventCall(op, fn, x, ret, calls, result, before) ==
    [op |-> op, fn |-> fn, x |-> x, ret |-> ret, calls |-> calls,
     result |-> result, before |-> before]

\* Event(): no callbacks. subscribed is what callers have subscribed and not
\* since detached with success.
EventInit ==
    [_callbacks |-> <<>>,
     delegates |-> [d \in DelegatePtrs |-> [fn |-> NoFunction, live |-> FALSE]],
     subscribed |-> <<>>,
     end |-> "ok",
     last |-> EventCall("Event", NoFunction, 0, "none", <<>>, <<>>, <<>>)]

\* --------------------------------------------------------------- Property
\* Property<T> and Property<T&> over an attribute of some class.

\* The values the attribute takes, and a value it never held.
PropertyValues == {0, 1}
Garbage == -1

\* The getters a Property is constructed with: a function that returns
\* const T& to the attribute, or the lambda of GET and of Property(T& ref),
\* `-> auto`, which returns the attribute by value.
Getters == {"const_ref", "auto"}

\* The setters: BaseProperty::unimplemented<T&&>() when none is given, or
\* one that assigns the attribute (SET, GETSET).
Setters == {"unimplemented", "SET"}

\* _getter(): const std::function<const T&()> returns a reference; around
\* a lambda that returns by value the reference is to a temporary that is
\* gone when the call returns, and reading it yields the attribute, some
\* other value, or a fault.
getter(prop) ==
    IF prop.getter = "const_ref"
    THEN {[end |-> "ok", value |-> prop.attribute]}
    ELSE {[end |-> "ok", value |-> prop.attribute],
          [end |-> "ok", value |-> Garbage],
          [end |-> "fault", value |-> Garbage]}

\* BaseProperty::unimplemented: [](T) { throw ImmutableException(); }
unimplemented(prop, value) ==
    [threw |-> "ImmutableException", attribute |-> prop.attribute]

\* _setter(value)
setter(prop, value) ==
    IF prop.setter = "unimplemented" THEN unimplemented(prop, value)
    ELSE [threw |-> "none", attribute |-> value]

\* One call on the property: the operation, the value passed or returned,
\* what it threw, and the attribute before and after.
PropertyCall(op, value, threw, end, before, after) ==
    [kind |-> "property", op |-> op, value |-> value, threw |-> threw,
     end |-> end, before |-> before, after |-> after]

\* operator=(Property<T> const&) that forwards the value of the other
\* property to the setter, as operator=(const T&) does.
copy_assign_forwarding(target, source) ==
    [getter |-> target.getter, setter |-> target.setter,
     attribute |-> setter(target, source.attribute).attribute,
     threw |-> setter(target, source.attribute).threw]

\* Property<T>& operator=(Property<T> const&) { return *this; } and the same
\* for Property<T>&&: what the target is afterwards, and what was thrown.
copy_assign(target, source) ==
    [getter |-> target.getter, setter |-> target.setter,
     attribute |-> target.attribute, threw |-> "none"]

\* A second Property, the right-hand side of an assignment between
\* properties: not constructed yet.
NoOther ==
    [constructed |-> FALSE, getter |-> "const_ref", setter |-> "unimplemented",
     attribute |-> 0]

\* No property constructed yet.
PropertyInit ==
    [constructed |-> FALSE, getter |-> "const_ref", setter |-> "unimplemented",
     attribute |-> 0, end |-> "ok", trace |-> <<>>, other |-> NoOther]

\* ------------------------------------------------- growth of the array
\* The tags the registering thread constructs after static initialization.
MaxGrowthTags == 2

\* No array: the value of old_aa outside update_allocator_array.
NoArray == 0

\* _allocator_array[i] read from the array `aa` with the bytes `over` after
\* it, as in ReadSlot.
ReadSlotOf(aa, over, i) ==
    IF i < Len(aa) THEN {aa[i + 1]}
    ELSE IF i \in DOMAIN over THEN {over[i], BadPtr}
    ELSE {BadPtr}

\* The state after static initialization.  `arrays` holds every array
\* allocated so far, _allocator_array and old_aa are positions in it, `freed`
\* the arrays released; `bound` maps each tag whose register_tag has returned
\* to the allocator it was registered with; `lookup` is the last read of
\* _allocator_array[tag.id] by the other thread.
GrowthInit ==
    LET st == initialize_allocator_array(BaseMemoryTagsCtor.id_count)
    IN [id_count |-> BaseMemoryTagsCtor.id_count,
        _aa_size |-> InitialAaSize,
        arrays |-> <<st.aa>>,
        overflow |-> st.over,
        _allocator_array |-> 1,
        old_aa |-> NoArray,
        freed |-> {},
        _memory_map |-> st.map,
        pc |-> "idle", tag |-> NoTag, a |-> NoAlloc,
        bound |-> EmptyMap,
        lookup |-> [tag |-> NoTag, value |-> NullPtr, expected |-> NullPtr,
                    pc |-> "idle", array |-> NoArray]]

\* The positions of the registering thread inside update_allocator_array,
\* each named after the statement it is about to execute.
UpdatePcs == {"old_aa", "new", "memcpy", "_aa_size"}

\* ---------------------------------------------------------- String parsing
\* parse_uint<T> and parse_int<T> for the 8- and 16-bit instantiations;
\* a string is the sequence of the codes of its characters.

\* inline const constexpr uint8 uint8_max = 255; and the like
uint8_max == 255
uint16_max == 65535
int8_max == 127
int16_max == 32767

\* '0' and '-'
Zero == 48
Minus == 45
\* 'a', a character that is no digit and no sign
Letter == 97

\* The integer types parsed into: their width, signedness and largest and
\* smallest value.
IntTypes ==
    [uint8 |-> [bits |-> 8, signed |-> FALSE, max |-> uint8_max, min |-> 0],
     uint16 |-> [bits |-> 16, signed |-> FALSE, max |-> uint16_max, min |-> 0],
     int8 |-> [bits |-> 8, signed |-> TRUE, max |-> int8_max,
               min |-> -int8_max - 1],
     int16 |-> [bits |-> 16, signed |-> TRUE, max |-> int16_max,
                min |-> -int16_max - 1]]
TypeNames == DOMAIN IntTypes

\* (T) x: x reduced to the width of T, two's complement when T is signed.
ConvertTo(T, x) ==
    LET m == 2 ^ IntTypes[T].bits
        u == x % m
    IN IF IntTypes[T].signed /\ u >= m \div 2 THEN u - m ELSE u

\* Result<T, InvalidArgument> holding a value, and Failure(...)
Success(v) == [ok |-> TRUE, value |-> v]
Failure == [ok |-> FALSE, value |-> 0]

\* Result::map: the function applied to the value of a success.
ResultMap(r, F(_)) == IF r.ok THEN Success(F(r.value)) ELSE r

\* The loop of parse_uint at position i, from the last character to the
\* first. digit is uint32: a difference below zero wraps to at least
\* 2^32 - 48, whose quotient by 10 is not 0, as the quotient of the negative
\* difference here is not. `return -1` converts -1 to T and returns it as
\* the value. power is uint128 and stays below 2^128 for the strings parsed
\* here.
RECURSIVE parse_uint_from(_, _, _, _, _, _)
parse_uint_from(T, s, i, max, result, power) ==
    IF i < 1 THEN Success(result)
    ELSE LET digit == s[i] - Zero
         IN IF digit \div 10 # 0 THEN Success(ConvertTo(T, -1))
            ELSE IF max - result < power * digit THEN Failure
            ELSE parse_uint_from(T, s, i - 1, max,
                                 ConvertTo(T, result + power * digit),
                                 power * 10)

\* parse_uint<T>(s, n, max)
parse_uint(T, s, max) == parse_uint_from(T, s, Len(s), max, 0, 1)

\* parse_int<T>(s, n, max): after a '-' the digits are parsed against
\* max - 1 and the value negated.
parse_int(T, s, max) ==
    IF s # <<>> /\ s[1] = Minus
    THEN ResultMap(parse_uint(T, Tail(s), max - 1),
                   LAMBDA a : ConvertTo(T, -a))
    ELSE parse_uint(T, s, max)

\* String::parse_as_uint8 .. parse_as_int16
parse_as(T, s) ==
    IF IntTypes[T].signed THEN parse_int(T, s, IntTypes[T].max)
    ELSE parse_uint(T, s, IntTypes[T].max)

\* The decimal text of the integer v, as std::to_string writes it.
RECURSIVE DecimalDigits(_)
DecimalDigits(v) ==
    IF v < 10 THEN <<Zero + v>>
    ELSE Append(DecimalDigits(v \div 10), Zero + (v % 10))
DecimalText(v) == IF v < 0 THEN <<Minus>> \o DecimalDigits(-v) ELSE DecimalDigits(v)

\* Longest of the strings parsed that are not the text of a number in or
\* near the range of the type.
MaxStringLen == 3
\* How far beyond the range of a type the numbers parsed lie.
Margin == 20

\* The strings of at most n of the characters '0', '1', '9', '-', 'a'.
RECURSIVE StringsUpTo(_)
StringsUpTo(n) ==
    IF n = 0 THEN {<<>>}
    ELSE LET shorter == StringsUpTo(n - 1)
         IN shorter \cup {Append(t, c) : t \in shorter,
                          c \in {Zero, Zero + 1, Zero + 9, Minus, Letter}}

\* No string parsed yet.
ParseInit == [type |-> "none", text |-> <<>>, number |-> FALSE, v |-> 0,
              result |-> Failure]

VARIABLES
    id_count,          \* MemoryTag::id_count
    tags,              \* ids of the MemoryTag objects constructed so far, in order
    _allocator_array,  \* MemorySystem::_allocator_array (its allocated slots)
    overflow,          \* values written past the end of the current array
    _aa_size,          \* MemorySystem::_aa_size
    _memory_map,       \* MemorySystem::_memory_map: base address -> tag id
    _dying,            \* MemoryMap::_dying
    used,              \* cursor of each stack allocator
    blocks,            \* live blocks <<address, size>> of the general allocator
    heap,              \* live blocks of the system allocator
    status,            \* "running", "exited" (exit(EXIT_FAILURE)) or "crashed"
    registered,        \* per allocator, the tag registered with it last
    directory,         \* per tag id, the allocator registered for it last
    last,              \* the last call: its arguments, result and inner calls
    arena,             \* a stack and a free-list strategy by themselves
    event,             \* an Event, its delegates and its last call
    property,          \* a Property, its attribute and the calls on it
    parse,             \* a String parsed as an integer, and the result
    growth             \* register_tag line by line, and a lookup beside it

vars == <<id_count, tags, _allocator_array, overflow, _aa_size, _memory_map,
          _dying, used, blocks, heap, status, registered, directory, last,
          arena, event,
          property, parse, growth>>

\* What the calls of the memory system leave alone.
others == <<arena, event, property, parse, growth>>

NoAllocation == [tag |-> NoTag, alloc |-> NoAlloc]

\* A call: its tag and address arguments, its result, the calls it made, how
\* it ended and, in `after`, where its address came from: for a get_owner(p)
\* that immediately follows the allocate that returned p, that allocation;
\* for a deallocate(p, T), the allocator p was live in when it was called.
Call(op, tag, p, ret, calls, end) ==
    [op |-> op, tag |-> tag, p |-> p, ret |-> ret, calls |-> calls, end |-> end,
     after |-> NoAllocation]

\* An inner call: by the function that made it, f the function called, a the
\* allocator it ran on, b its boolean result (owns), t its tag result
\* (get_first_before).
Ev(by, f, a, b, t) == [by |-> by, f |-> f, a |-> a, b |-> b, t |-> t]

\* The registrations of initialize_allocator_array, in its order.
BaseRegistrations ==
    <<<<"Unknown", unknown_allocator>>, <<"Temp", temp_allocator>>,
      <<"Array", general_allocator>>, <<"List", general_allocator>>,
      <<"Map", general_allocator>>, <<"Set", general_allocator>>,
      <<"String", general_allocator>>, <<"Callback", general_allocator>>>>

RegisteredWith(a) ==
    {i \in 1 .. Len(BaseRegistrations) : BaseRegistrations[i][2] = a}

\* The tag initialize_allocator_array registers first with allocator a.
FirstRegistered(a) ==
    IF RegisteredWith(a) = {} THEN NoTag
    ELSE BaseMemoryTags(BaseRegistrations[Min(RegisteredWith(a))][1])

\* The tag initialize_allocator_array registers last with each allocator.
InitiallyRegistered ==
    [a \in Allocators |->
        IF RegisteredWith(a) = {} THEN NoTag
        ELSE BaseMemoryTags(BaseRegistrations[Max(RegisteredWith(a))][1])]

\* The allocator initialize_allocator_array registers for each base tag.
InitialDirectory ==
    [t \in {BaseMemoryTags(BaseRegistrations[i][1]) : i \in 1 .. Len(BaseRegistrations)} |->
        BaseRegistrations[
            Max({i \in 1 .. Len(BaseRegistrations) :
                    BaseMemoryTags(BaseRegistrations[i][1]) = t})][2]]

TagsInUse == {tags[i] : i \in 1 .. Len(tags)}
\* The tags constructed after static initialization.
UserTags == {tags[i] : i \in (Len(BaseTagNames) + 1) .. Len(tags)}

\* --------------------------------------------------------------- Init
Init ==
    LET st == initialize_allocator_array(BaseMemoryTagsCtor.id_count)
    IN /\ id_count = BaseMemoryTagsCtor.id_count
       /\ tags = BaseMemoryTagsCtor.ids
       /\ _allocator_array = st.aa
       /\ overflow = st.over
       /\ _aa_size = InitialAaSize
       /\ _memory_map = st.map
       /\ _dying = FALSE
       /\ used = [a \in StackAllocators |-> 0]
       /\ blocks = {}
       /\ heap = {}
       /\ status = "running"
       /\ registered = InitiallyRegistered
       /\ directory = InitialDirectory
       /\ last = Call("init", NoTag, NoAddr, NoTag, <<>>, "ok")
       /\ arena = ArenaInit
       /\ event = EventInit
       /\ property = PropertyInit
       /\ parse = ParseInit
       /\ growth = GrowthInit

\* ------------------------------------------------------ pure operations
\* _allocator_array[i] as a read.  Inside the allocated length the slot is
\* read.  Past it the read is out of bounds: it yields what an earlier
\* out-of-bounds write left there, unless those heap bytes were reused since,
\* and then it yields a pointer to nothing.
\* The read with the index ignored: always the first slot.
ReadSlotFirst(i) ==
    IF 0 < Len(_allocator_array) THEN {_allocator_array[1]}
    ELSE IF 0 \in DOMAIN overflow THEN {overflow[0], BadPtr}
    ELSE {BadPtr}

ReadSlot(i) ==
    IF i < Len(_allocator_array) THEN {_allocator_array[i + 1]}
    ELSE IF i \in DOMAIN overflow THEN {overflow[i], BadPtr}
    ELSE {BadPtr}

Derefs(a) == a \in Allocators

\* The lookup without either it--: the entry lower_bound lands on.
LowerBoundOnly(address) ==
    LET keys == DOMAIN _memory_map
        lb == {k \in keys : k >= address}
    IN IF lb = {} THEN INVALID ELSE _memory_map[Min(lb)]

\* MemoryMap::get_first_before on a map with at least one entry.
LowerBoundLookup(address) ==
    LET keys == DOMAIN _memory_map
        lb == {k \in keys : k >= address}
    IN IF lb = {} THEN _memory_map[Max(keys)]
       ELSE LET it == Min(lb)
            IN IF it = address THEN _memory_map[it]
               ELSE IF it = Min(keys) THEN INVALID
               ELSE _memory_map[Max({k \in keys : k < it})]

\* MemoryMap::get_first_before
get_first_before(address) ==
    IF address = NullAddr THEN INVALID
    ELSE IF _dying THEN INVALID
    ELSE LowerBoundLookup(address)

\* get_owner without its second return: the candidate tag is returned
\* whatever owns reports.
get_owner_unchecked(p) ==
    LET tag == get_first_before(p)
        first == Ev("get_owner", "get_first_before", NoAlloc, FALSE, tag)
    IN IF tag = INVALID
       THEN {[ret |-> INVALID, calls |-> <<first>>, end |-> "ok"]}
       ELSE {IF ~Derefs(a)
             THEN [ret |-> NoTag, calls |-> <<first>>, end |-> "crashed"]
             ELSE [ret |-> tag,
                   calls |-> <<first, Ev("get_owner", "owns", a, owns(a, p), NoTag)>>,
                   end |-> "ok"]
             : a \in ReadSlot(tag)}

\* get_owner with the negation of its test dropped:
\* if (_allocator_array[tag.id]->owns(p)) return MemoryTag::INVALID;
get_owner_inverted(p) ==
    LET tag == get_first_before(p)
        first == Ev("get_owner", "get_first_before", NoAlloc, FALSE, tag)
    IN IF tag = INVALID
       THEN {[ret |-> INVALID, calls |-> <<first>>, end |-> "ok"]}
       ELSE {IF ~Derefs(a)
             THEN [ret |-> NoTag, calls |-> <<first>>, end |-> "crashed"]
             ELSE [ret |-> IF owns(a, p) THEN INVALID ELSE tag,
                   calls |-> <<first, Ev("get_owner", "owns", a, owns(a, p), NoTag)>>,
                   end |-> "ok"]
             : a \in ReadSlot(tag)}

\* MemorySystem::get_owner: the set of its outcomes, one per value the read
\* of _allocator_array[tag.id] can yield.
get_owner(p) ==
    LET tag == get_first_before(p)
        first == Ev("get_owner", "get_first_before", NoAlloc, FALSE, tag)
    IN IF tag = INVALID
       THEN {[ret |-> INVALID, calls |-> <<first>>, end |-> "ok"]}
       ELSE {IF ~Derefs(a)
             THEN [ret |-> NoTag, calls |-> <<first>>, end |-> "crashed"]
             ELSE IF ~owns(a, p)
             THEN [ret |-> INVALID,
                   calls |-> <<first, Ev("get_owner", "owns", a, FALSE, NoTag)>>,
                   end |-> "ok"]
             ELSE [ret |-> tag,
                   calls |-> <<first, Ev("get_owner", "owns", a, TRUE, NoTag)>>,
                   end |-> "ok"]
             : a \in ReadSlot(tag)}

\* deallocate without its ownership check.
deallocate_unchecked(a, p) == TRUE

\* deallocate with the negation of its test dropped: if (allocator->owns(ptr)).
deallocate_check_inverted(a, p) == ~owns(a, p)

\* The ownership check of MemorySystem::deallocate on the allocator `a` it
\* read: TRUE lets the call go on to a->free(ptr).
deallocate_check(a, p) == owns(a, p)

\* operator delete that hands every pointer to the system free.
delete_always_free(tag) == "free"

\* The branch of operator delete: if (tag != MemoryTag::INVALID)
\* MemorySystem::deallocate(p, tag); else free(p);
delete_route(tag) == IF tag # INVALID THEN "deallocate" ELSE "free"

\* MemorySystem::deallocate and the global operator delete call each other
\* through CAllocator::free.  Nothing changes between two levels of the
\* nesting, so a level that can be entered once can be entered for ever:
\* after MaxDepth levels the outcome is the unbounded recursion.
\* An outcome: the inner calls in order, how it ends ("freed" in an arena,
\* "sysfree" by the system free, "exited", "crashed", "overflow") and the
\* arena that released the block.
RECURSIVE operator_delete(_, _)
RECURSIVE deallocate(_, _, _)

deallocate(p, tag, d) ==
    UNION {
        IF ~Derefs(a)
        THEN {[calls |-> <<>>, end |-> "crashed", alloc |-> NoAlloc]}
        ELSE IF ~deallocate_check(a, p)
        THEN {[calls |-> <<Ev("deallocate", "owns", a, owns(a, p), NoTag)>>,
               end |-> "exited", alloc |-> NoAlloc]}
        ELSE LET head == <<Ev("deallocate", "owns", a, owns(a, p), NoTag),
                           Ev("deallocate", "free", a, FALSE, NoTag)>>
             IN IF a = unknown_allocator
                THEN {[calls |-> head \o o.calls, end |-> o.end, alloc |-> o.alloc]
                      : o \in operator_delete(p, d - 1)}
                ELSE {[calls |-> head, end |-> "freed", alloc |-> a]}
        : a \in ReadSlot(tag)}

operator_delete(p, d) ==
    IF d = 0
    THEN {[calls |-> <<>>, end |-> "overflow", alloc |-> NoAlloc]}
    ELSE UNION {
        IF g.end = "crashed"
        THEN {[calls |-> g.calls, end |-> "crashed", alloc |-> NoAlloc]}
        ELSE IF delete_route(g.ret) = "free"
        THEN {[calls |-> Append(g.calls,
                         Ev("operator_delete", "sysfree", NoAlloc, FALSE, NoTag)),
               end |-> "sysfree", alloc |-> NoAlloc]}
        ELSE {[calls |-> g.calls
                         \o <<Ev("operator_delete", "deallocate", NoAlloc, FALSE, g.ret)>>
                         \o o.calls,
               end |-> o.end, alloc |-> o.alloc]
              : o \in deallocate(p, g.ret, d)}
        : g \in get_owner(p)}

\* ------------------------------------------------ allocator state changes
\* What one allocator's allocate(size, MEMORY_PADDING) returns and leaves
\* behind: ret is the address (nullptr on exhaustion).
StackAllocate(a, n) ==
    IF used[a] + n > total_size(a)
    THEN {[ret |-> NullAddr, used |-> used, blocks |-> blocks, heap |-> heap]}
    ELSE {[ret |-> start(a) + used[a], used |-> [used EXCEPT ![a] = @ + n],
           blocks |-> blocks, heap |-> heap]}

Taken(x) == \E b \in blocks : b[1] <= x /\ x < b[1] + b[2]

\* FindFirst: the lowest run of n free units of the region.
FreeListAllocate(n) ==
    LET fits == {x \in GenBase .. (GenBase + GenCap - n) :
                    \A y \in x .. (x + n - 1) : ~Taken(y)}
    IN IF fits = {}
       THEN {[ret |-> NullAddr, used |-> used, blocks |-> blocks, heap |-> heap]}
       ELSE {[ret |-> Min(fits), used |-> used,
              blocks |-> blocks \cup {<<Min(fits), n>>}, heap |-> heap]}

\* CAllocator::allocate: ::operator new(size), a block of the system heap
\* that is not live.
CAllocate(n) ==
    {[ret |-> x, used |-> used, blocks |-> blocks, heap |-> heap \cup {x}]
     : x \in HeapAddrs \ heap}

\* allocate with a fallback: when the strategy is exhausted the request goes
\* to the system allocator.
AllocatorAllocateWithFallback(a, n) ==
    LET own == IF a = unknown_allocator THEN CAllocate(n)
               ELSE IF a \in StackAllocators THEN StackAllocate(a, n)
               ELSE FreeListAllocate(n)
    IN UNION {IF o.ret = NullAddr THEN CAllocate(n) ELSE {o} : o \in own}

AllocatorAllocate(a, n) ==
    IF a = unknown_allocator THEN CAllocate(n)
    ELSE IF a \in StackAllocators THEN StackAllocate(a, n)
    ELSE FreeListAllocate(n)

\* a->free(p) of an arena: the stack keeps everything until reset, the free
\* list releases the block that starts at p.
ArenaFree(a, p) ==
    IF a = general_allocator THEN {b \in blocks : b[1] # p} ELSE blocks

\* a->reset()
AllocatorReset(a) ==
    [used |-> IF a \in StackAllocators THEN [used EXCEPT ![a] = 0] ELSE used,
     blocks |-> IF a = general_allocator THEN {} ELSE blocks]

\* ---------------------------------------------------------------- actions
Running == status = "running"

\* MemoryTag tag;  (the default constructor)
IssueTag ==
    LET t == MemoryTagCtor(id_count)
    IN /\ id_count' = t.id_count
       /\ last' = Call("new_tag", t.id, NoAddr, NoTag, <<>>, "ok")

NewTag ==
    /\ Running
    /\ UNCHANGED others
    /\ id_count < MaxIdCount
    /\ IssueTag
    /\ tags' = Append(tags, MemoryTagCtor(id_count).id)
    /\ UNCHANGED <<_allocator_array, overflow, _aa_size, _memory_map, _dying,
                   used, blocks, heap, status, registered,
                   directory>>

\* MemoryTag();  a tag constructed and dropped: only the counter moves.
NewTemporaryTag ==
    /\ Running
    /\ UNCHANGED others
    /\ IssueTag
    /\ UNCHANGED <<tags, _allocator_array, overflow, _aa_size, _memory_map,
                   _dying, used, blocks, heap, status, registered,
                   directory>>

\* MemorySystem::update_allocator_array
update_allocator_array ==
    [aa |-> memcpy(NewArray(id_count), _allocator_array, _aa_size),
     over |-> EmptyMap,
     size |-> id_count]

\* register_tag without its last statement: the index is not told.
register_tag_no_index(tag, a) ==
    LET grown == IF _aa_size < id_count
                 THEN update_allocator_array
                 ELSE [aa |-> _allocator_array, over |-> overflow, size |-> _aa_size]
        w == WriteSlot([aa |-> grown.aa, over |-> grown.over], tag, a)
    IN [aa |-> w.aa, over |-> w.over, size |-> grown.size, map |-> _memory_map]

\* register_tag with _memory_map.insert in place of operator[]=.
register_tag_keep_first(tag, a) ==
    LET grown == IF _aa_size < id_count
                 THEN update_allocator_array
                 ELSE [aa |-> _allocator_array, over |-> overflow, size |-> _aa_size]
        w == WriteSlot([aa |-> grown.aa, over |-> grown.over], tag, a)
    IN [aa |-> w.aa, over |-> w.over, size |-> grown.size,
        map |-> IF start(a) \in DOMAIN _memory_map THEN _memory_map
                ELSE MapPut(_memory_map, start(a), tag)]

\* MemorySystem::register_tag
register_tag(tag, a) ==
    LET grown == IF _aa_size < id_count
                 THEN update_allocator_array
                 ELSE [aa |-> _allocator_array, over |-> overflow, size |-> _aa_size]
        w == WriteSlot([aa |-> grown.aa, over |-> grown.over], tag, a)
    IN [aa |-> w.aa, over |-> w.over, size |-> grown.size,
        map |-> MapPut(_memory_map, start(a), tag)]

RegisterTag(tag, a) ==
    /\ Running
    /\ UNCHANGED others
    /\ ~_dying
    /\ LET r == register_tag(tag, a)
       IN /\ _allocator_array' = r.aa
          /\ overflow' = r.over
          /\ _aa_size' = r.size
          /\ _memory_map' = r.map
    /\ registered' = [registered EXCEPT ![a] = tag]
    /\ directory' = MapPut(directory, tag, a)
    /\ last' = Call("register_tag", tag, start(a), NoTag,
                    <<Ev("register_tag", "register", a, FALSE, tag)>>, "ok")
    /\ UNCHANGED <<id_count, tags, _dying, used, blocks, heap, status>>

\* MemorySystem::allocate (and the tagged operator new, which forwards to it)
Allocate(n, tag) ==
    /\ Running
    /\ UNCHANGED others
    /\ \E a \in ReadSlot(tag) :
        IF ~Derefs(a)
        THEN /\ status' = "crashed"
             /\ last' = Call("allocate", tag, NoAddr, NoAddr, <<>>, "crashed")
             /\ UNCHANGED <<used, blocks, heap>>
        ELSE \E o \in AllocatorAllocate(a, n) :
             /\ used' = o.used
             /\ blocks' = o.blocks
             /\ heap' = o.heap
             /\ status' = status
             /\ last' = Call("allocate", tag, NoAddr, o.ret,
                             <<Ev("allocate", "allocate", a, o.ret # NullAddr, NoTag)>>,
                             "ok")
    /\ UNCHANGED <<id_count, tags, _allocator_array, overflow, _aa_size,
                   _memory_map, _dying, registered,
                   directory>>

\* The effect of one outcome of deallocate / operator delete on p.
\* The strategy in which p is a live allocation, given the bookkeeping of
\* the three kinds of allocator; NoAlloc when p is live nowhere.
Live(p, h, b, u) ==
    IF p \in h THEN unknown_allocator
    ELSE IF \E x \in b : x[1] = p THEN general_allocator
    ELSE IF \E a \in StackAllocators : start(a) <= p /\ p < start(a) + u[a]
    THEN CHOOSE a \in StackAllocators : start(a) <= p /\ p < start(a) + u[a]
    ELSE NoAlloc

LiveIn(p) == Live(p, heap, blocks, used)

Released(o, p) ==
    /\ UNCHANGED others
    /\ blocks' = IF o.end = "freed" THEN ArenaFree(o.alloc, p) ELSE blocks
    /\ heap' = IF o.end = "sysfree" THEN heap \ {p} ELSE heap
    /\ status' \in
         CASE o.end \in {"crashed", "overflow"} -> {"crashed"}
           [] o.end = "exited" -> {"exited"}
           [] o.end = "sysfree" /\ p # NullAddr /\ p \notin heap ->
                {"running", "crashed"}
           [] OTHER -> {"running"}
    /\ UNCHANGED <<id_count, tags, _allocator_array, overflow, _aa_size,
                   _memory_map, _dying, used, registered,
                   directory>>

\* MemorySystem::deallocate
Deallocate(p, tag) ==
    /\ Running
    /\ \E o \in deallocate(p, tag, MaxDepth) :
        /\ Released(o, p)
        /\ last' = [Call("deallocate", tag, p, NoTag, o.calls, o.end)
                       EXCEPT !.after = [tag |-> NoTag, alloc |-> LiveIn(p)]]

\* operator delete(void*) and operator delete[](void*)
OperatorDelete(p) ==
    /\ Running
    /\ \E o \in operator_delete(p, MaxDepth) :
        /\ Released(o, p)
        /\ last' = Call("operator_delete", NoTag, p, NoTag, o.calls, o.end)

\* MemorySystem::reset_memory
ResetMemory(tag) ==
    /\ Running
    /\ UNCHANGED others
    /\ \E a \in ReadSlot(tag) :
        IF ~Derefs(a)
        THEN /\ status' = "crashed"
             /\ last' = Call("reset_memory", tag, NoAddr, NoTag, <<>>, "crashed")
             /\ UNCHANGED <<used, blocks>>
        ELSE /\ used' = AllocatorReset(a).used
             /\ blocks' = AllocatorReset(a).blocks
             /\ status' = status
             /\ last' = Call("reset_memory", tag, NoAddr, NoTag,
                             <<Ev("reset_memory", "reset", a, FALSE, NoTag)>>, "ok")
    /\ UNCHANGED <<id_count, tags, _allocator_array, overflow, _aa_size,
                   _memory_map, _dying, heap, registered,
                   directory>>

\* allocator->used() of print_usage: the bytes in use, a read.
AllocatorUsed(a) ==
    IF a \in StackAllocators THEN used[a]
    ELSE IF a = general_allocator THEN Cardinality({<<b, x>> \in blocks \X Addrs :
                                                     b[1] <= x /\ x < b[1] + b[2]})
    ELSE 0

\* print_usage that resets the allocator it reports on.
print_usage_resetting(a) ==
    [used |-> AllocatorReset(a).used, blocks |-> AllocatorReset(a).blocks,
     heap |-> heap,
     calls |-> <<Ev("print_usage", "used", a, AllocatorUsed(a) > 0, NoTag),
                 Ev("print_usage", "total_size", a, total_size(a) > 0, NoTag),
                 Ev("print_usage", "peak", a, FALSE, NoTag)>>]

\* The body of MemorySystem::print_usage on the allocator `a` it read: the
\* three getters it calls, and the allocators' state when it returns.  The
\* rest computes on local copies and writes to std::cout.
print_usage(a) ==
    [used |-> used, blocks |-> blocks, heap |-> heap,
     calls |-> <<Ev("print_usage", "used", a, AllocatorUsed(a) > 0, NoTag),
                 Ev("print_usage", "total_size", a, total_size(a) > 0, NoTag),
                 Ev("print_usage", "peak", a, FALSE, NoTag)>>]

\* MemorySystem::print_usage
PrintUsage(tag) ==
    /\ Running
    /\ UNCHANGED others
    /\ \E a \in ReadSlot(tag) :
        IF ~Derefs(a)
        THEN /\ status' = "crashed"
             /\ last' = Call("print_usage", tag, NoAddr, NoTag, <<>>, "crashed")
             /\ UNCHANGED <<used, blocks, heap>>
        ELSE /\ used' = print_usage(a).used
             /\ blocks' = print_usage(a).blocks
             /\ heap' = print_usage(a).heap
             /\ status' = status
             /\ last' = Call("print_usage", tag, NoAddr, NoTag,
                             print_usage(a).calls, "ok")
    /\ UNCHANGED <<id_count, tags, _allocator_array, overflow, _aa_size,
                   _memory_map, _dying, registered, directory>>

\* MemorySystem::get_owner
GetOwner(p) ==
    /\ Running
    /\ UNCHANGED others
    /\ \E g \in get_owner(p) :
        /\ status' = IF g.end = "crashed" THEN "crashed" ELSE status
        /\ last' = [Call("get_owner", NoTag, p, g.ret, g.calls, g.end)
                       EXCEPT !.after =
                           IF /\ last.op = "allocate"
                              /\ last.end = "ok"
                              /\ last.ret = p
                              /\ p # NullAddr
                           THEN [tag |-> last.tag, alloc |-> last.calls[1].a]
                           ELSE NoAllocation]
    /\ UNCHANGED <<id_count, tags, _allocator_array, overflow, _aa_size,
                   _memory_map, _dying, used, blocks, heap, registered,
                   directory>>

\* ~MemoryMap() { _dying = true; } at static destruction, followed by the
\* destructor of the std::map base, which releases every entry.
\* A destructor that neither marks the map nor releases its entries.
MemoryMapDestroyedUnmarked == [_dying |-> _dying, _memory_map |-> _memory_map]

\* The map once its destructor and that of its base have run.
MemoryMapDestroyed == [_dying |-> TRUE, _memory_map |-> EmptyMap]

MemoryMapDtor ==
    /\ Running
    /\ UNCHANGED others
    /\ ~_dying
    /\ _dying' = MemoryMapDestroyed._dying
    /\ _memory_map' = MemoryMapDestroyed._memory_map
    /\ last' = Call("~MemoryMap", NoTag, NoAddr, NoTag, <<>>, "ok")
    /\ UNCHANGED <<id_count, tags, _allocator_array, overflow, _aa_size,
                   used, blocks, heap, status, registered,
                   directory>>

\* The tags callers pass: Array, List, Map, Set, String and Callback are
\* registered alike, so the first and the last of them stand for all six.
TagInputs ==
    UserTags \cup {BaseMemoryTags("Unknown"), BaseMemoryTags("Temp"),
                   BaseMemoryTags("Array"), BaseMemoryTags("Callback")}

\* The allocators a caller passes to register_tag.
RegAllocators == {general_allocator, user_allocator}

Next ==
    \/ NewTag
    \/ \E tag \in UserTags, a \in RegAllocators : RegisterTag(tag, a)
    \/ \E n \in Sizes, tag \in TagInputs : Allocate(n, tag)
    \/ \E p \in Addrs, tag \in TagInputs : Deallocate(p, tag)
    \/ \E p \in Addrs : OperatorDelete(p)
    \/ \E tag \in TagInputs : ResetMemory(tag)
    \/ \E p \in Addrs : GetOwner(p)
    \/ \E tag \in TagInputs : PrintUsage(tag)
    \/ MemoryMapDtor

Spec == Init /\ [][Next]_vars

\* The tag counter alone: tags are constructed without end.
NextTagCounter == NewTemporaryTag

SpecTagCounter == Init /\ [][NextTagCounter]_vars

\* Registration alone, of any tag a caller holds: a tag constructed after
\* static initialization or one of the base tags.
NextRegister ==
    \/ NewTag
    \/ \E tag \in TagInputs, a \in RegAllocators : RegisterTag(tag, a)

SpecRegister == Init /\ [][NextRegister]_vars

\* --------------------------------------------------------- arena actions
\* Everything of the memory system.
memory == <<id_count, tags, _allocator_array, overflow, _aa_size, _memory_map,
            _dying, used, blocks, heap, status, registered, directory, last>>

\* allocate(size, MEMORY_PADDING) on the stack
StackAllocateCall(size) ==
    /\ LET r == StackAllocatorAllocate(arena.cursor, size, MEMORY_PADDING)
       IN arena' = [arena EXCEPT
              !.cursor = r.used,
              !.trace = Traced(@, ArenaCall("stack", "allocate", size, r.p,
                                            r.ok, arena.cursor, r.used))]
    /\ UNCHANGED <<memory, event, property, parse, growth>>

\* reset() on the stack
StackReset ==
    /\ arena' = [arena EXCEPT
           !.cursor = StackAllocatorReset(@),
           !.trace = Traced(@, ArenaCall("stack", "reset", 0, NoAddr, TRUE,
                                         arena.cursor,
                                         StackAllocatorReset(arena.cursor)))]
    /\ UNCHANGED <<memory, event, property, parse, growth>>

\* allocate(size, MEMORY_PADDING) on the free list
FreeListAllocateCall(size) ==
    /\ LET r == FreeListAllocatorAllocate(arena.fl, size)
       IN arena' = [arena EXCEPT
              !.fl = r.fl,
              !.trace = Traced(@, ArenaCall("free_list", "allocate", size, r.p,
                                            r.ok, FreeListUsed(arena.fl),
                                            FreeListUsed(r.fl)))]
    /\ UNCHANGED <<memory, event, property, parse, growth>>

\* free(p) on the free list, of a live block
FreeListFree(p) ==
    /\ p \in LiveAddresses(arena.fl)
    /\ LET fl == FreeListAllocatorFree(arena.fl, p)
       IN arena' = [arena EXCEPT
              !.fl = fl,
              !.trace = Traced(@, ArenaCall("free_list", "free", 0, p, TRUE,
                                            FreeListUsed(arena.fl),
                                            FreeListUsed(fl)))]
    /\ UNCHANGED <<memory, event, property, parse, growth>>

\* reset() on the free list
FreeListReset ==
    /\ LET fl == FreeListAllocatorReset(arena.fl)
       IN arena' = [arena EXCEPT
              !.fl = fl,
              !.trace = Traced(@, ArenaCall("free_list", "reset", 0, NoAddr,
                                            TRUE, FreeListUsed(arena.fl),
                                            FreeListUsed(fl)))]
    /\ UNCHANGED <<memory, event, property, parse, growth>>

NextArena ==
    \/ \E size \in StackSizes : StackAllocateCall(size)
    \/ StackReset
    \/ \E size \in FlSizes : FreeListAllocateCall(size)
    \/ \E p \in 0 .. FlCapacity : FreeListFree(p)
    \/ FreeListReset

SpecArena == Init /\ [][NextArena]_vars

\* ---------------------------------------------------------- event actions
\* subscribe(callback)
Subscribe(fn) ==
    /\ event.end = "ok"
    /\ NewDelegate(event.delegates) # 0
    /\ LET d == NewDelegate(event.delegates)
       IN event' = [event EXCEPT
              !.delegates[d] = [fn |-> fn, live |-> TRUE],
              !._callbacks = Append(@, d),
              !.subscribed = Append(@, fn),
              !.last = EventCall("subscribe", fn, 0, "none", <<>>, <<>>,
                                 event._callbacks)]
    /\ UNCHANGED <<memory, arena, property, parse, growth>>

\* unsubscribe(callback): the delegate made for the comparison is not deleted
Unsubscribe(fn) ==
    /\ event.end = "ok"
    /\ NewDelegate(event.delegates) # 0
    /\ LET d == NewDelegate(event.delegates)
           made == [event.delegates EXCEPT ![d] = [fn |-> fn, live |-> TRUE]]
       IN \E r \in remove_delegate(made, event._callbacks, fn) :
             event' = [event EXCEPT
                 !.delegates = r.delegates,
                 !._callbacks = r.callbacks,
                 !.subscribed = IF r.ret = "Successful" THEN Detach(@, fn)
                                ELSE @,
                 !.end = r.end,
                 !.last = EventCall("unsubscribe", fn, 0, r.ret, <<>>, <<>>,
                                    event._callbacks)]
    /\ UNCHANGED <<memory, arena, property, parse, growth>>

\* invoke(arguments...)
Invoke(x) ==
    /\ event.end = "ok"
    /\ \E r \in invoke(event.delegates, event._callbacks, x) :
          event' = [event EXCEPT
              !.end = r.end,
              !.last = EventCall("invoke", NoFunction, x, "none", r.calls,
                                 r.result, event._callbacks)]
    /\ UNCHANGED <<memory, arena, property, parse, growth>>

NextEvent ==
    \/ \E fn \in Functions : Subscribe(fn)
    \/ \E fn \in Functions : Unsubscribe(fn)
    \/ \E x \in Arguments : Invoke(x)

SpecEvent == Init /\ [][NextEvent]_vars

\* ------------------------------------------------------- property actions
\* Property(get_fn, set_fn = unimplemented<T&&>()), Property(T& ref) and
\* Property(__GETSET__, T& ref), over an attribute that holds v
PropertyCtor(g, st, v) ==
    /\ property.end = "ok"
    /\ property' = [constructed |-> TRUE, getter |-> g, setter |-> st,
                    attribute |-> v, end |-> "ok", trace |-> <<>>,
                    other |-> property.other]
    /\ UNCHANGED <<memory, arena, event, parse, growth>>

\* operator=(const T& value), operator=(T&& value)
PropertyAssign(value) ==
    /\ property.constructed /\ property.end = "ok"
    /\ LET r == setter(property, value)
       IN property' = [property EXCEPT
              !.attribute = r.attribute,
              !.trace = Traced(@, PropertyCall("assign", value, r.threw, "ok",
                                               property.attribute,
                                               r.attribute))]
    /\ UNCHANGED <<memory, arena, event, parse, growth>>

\* operator const T&(), operator()(), and the read of what they return
PropertyGet ==
    /\ property.constructed /\ property.end = "ok"
    /\ \E r \in getter(property) :
          property' = [property EXCEPT
              !.end = r.end,
              !.trace = Traced(@, PropertyCall("get", r.value, "none", r.end,
                                               property.attribute,
                                               property.attribute))]
    /\ UNCHANGED <<memory, arena, event, parse, growth>>

\* The construction of the second property, over another attribute
OtherCtor(g, st, v) ==
    /\ property.end = "ok"
    /\ ~property.other.constructed
    /\ property' = [property EXCEPT
           !.other = [constructed |-> TRUE, getter |-> g, setter |-> st,
                      attribute |-> v]]
    /\ UNCHANGED <<memory, arena, event, parse, growth>>

\* property = other;  and  property = std::move(other);
PropertyCopyAssign ==
    /\ property.constructed /\ property.end = "ok"
    /\ property.other.constructed
    /\ LET r == copy_assign(property, property.other)
       IN property' = [property EXCEPT
              !.getter = r.getter,
              !.setter = r.setter,
              !.attribute = r.attribute,
              !.trace = Traced(@, PropertyCall("copy", property.other.attribute,
                                               r.threw, "ok",
                                               property.attribute,
                                               r.attribute))]
    /\ UNCHANGED <<memory, arena, event, parse, growth>>

NextProperty ==
    \/ \E g \in Getters, st \in Setters, v \in PropertyValues :
          PropertyCtor(g, st, v)
    \/ \E g \in Getters, st \in Setters, v \in PropertyValues :
          OtherCtor(g, st, v)
    \/ PropertyCopyAssign
    \/ \E value \in PropertyValues : PropertyAssign(value)
    \/ PropertyGet

SpecProperty == Init /\ [][NextProperty]_vars

\* ---------------------------------------------------------- parse actions
\* parse_as_<T>() on the decimal text of the number v
ParseNumber(T, v) ==
    /\ parse.type = "none"
    /\ parse' = [type |-> T, text |-> DecimalText(v), number |-> TRUE, v |-> v,
                 result |-> parse_as(T, DecimalText(v))]
    /\ UNCHANGED <<memory, arena, event, property, growth>>

\* parse_as_<T>() on the string s
ParseString(T, s) ==
    /\ parse.type = "none"
    /\ parse' = [type |-> T, text |-> s, number |-> FALSE, v |-> 0,
                 result |-> parse_as(T, s)]
    /\ UNCHANGED <<memory, arena, event, property, growth>>

\* The types the string may be parsed as: any, until it has been parsed.
Parseable == IF parse.type = "none" THEN TypeNames ELSE {}

NextParse ==
    \/ \E T \in Parseable :
          \E v \in (IntTypes[T].min - Margin) .. (IntTypes[T].max + Margin) :
             ParseNumber(T, v)
    \/ \E T \in Parseable, s \in StringsUpTo(MaxStringLen) : ParseString(T, s)

SpecParse == Init /\ [][NextParse]_vars

\* --------------------------------------------------------- growth actions
\* MemoryTag tag; by the registering thread
GrowthNewTag ==
    /\ growth.pc = "idle"
    /\ growth.id_count < MaxGrowthTags
    /\ growth' = [growth EXCEPT !.id_count = MemoryTagCtor(@).id_count]
    /\ UNCHANGED <<memory, arena, event, property, parse>>

\* register_tag(tag, a) is entered:
\* if (_aa_size < MemoryTag::id_count) update_allocator_array();
RegisterEnter(tag, a) ==
    /\ growth.pc = "idle"
    /\ tag < growth.id_count
    /\ growth' = [growth EXCEPT
           !.tag = tag, !.a = a,
           !.pc = IF growth._aa_size < growth.id_count THEN "old_aa" ELSE "store"]
    /\ UNCHANGED <<memory, arena, event, property, parse>>

\* const auto old_aa = _allocator_array;
UpdateOldAa ==
    /\ growth.pc = "old_aa"
    /\ growth' = [growth EXCEPT !.old_aa = growth._allocator_array, !.pc = "new"]
    /\ UNCHANGED <<memory, arena, event, property, parse>>

\* _allocator_array = new Allocator*[MemoryTag::id_count]();
UpdateNew ==
    /\ growth.pc = "new"
    /\ growth' = [growth EXCEPT
           !.arrays = Append(@, NewArray(growth.id_count)),
           !._allocator_array = Len(growth.arrays) + 1,
           !.overflow = EmptyMap,
           !.pc = "memcpy"]
    /\ UNCHANGED <<memory, arena, event, property, parse>>

\* memcpy(_allocator_array, old_aa, _aa_size);
UpdateMemcpy ==
    /\ growth.pc = "memcpy"
    /\ growth' = [growth EXCEPT
           !.arrays[growth._allocator_array] =
               memcpy(@, growth.arrays[growth.old_aa], growth._aa_size),
           !.pc = "_aa_size"]
    /\ UNCHANGED <<memory, arena, event, property, parse>>

\* _aa_size = MemoryTag::id_count; and the return of update_allocator_array
UpdateAaSize ==
    /\ growth.pc = "_aa_size"
    /\ growth' = [growth EXCEPT
           !._aa_size = growth.id_count, !.old_aa = NoArray, !.pc = "store"]
    /\ UNCHANGED <<memory, arena, event, property, parse>>

\* _allocator_array[tag.id] = &allocator; _memory_map[allocator.start()] = tag;
\* and the return of register_tag
RegisterStore ==
    /\ growth.pc = "store"
    /\ LET w == WriteSlot([aa |-> growth.arrays[growth._allocator_array],
                           over |-> growth.overflow], growth.tag, growth.a)
       IN growth' = [growth EXCEPT
              !.arrays[growth._allocator_array] = w.aa,
              !.overflow = w.over,
              !._memory_map = MapPut(@, start(growth.a), growth.tag),
              !.bound = MapPut(@, growth.tag, growth.a),
              !.tag = NoTag, !.a = NoAlloc,
              !.pc = "idle"]
    /\ UNCHANGED <<memory, arena, event, property, parse>>

\* auto allocator = _allocator_array[tag.id]; of MemorySystem::allocate, run
\* by another thread for a tag whose register_tag has returned, wherever
\* the registering thread stands.
Lookup(tag) ==
    /\ tag \in DOMAIN growth.bound
    /\ \E v \in IF growth._allocator_array \in growth.freed THEN {BadPtr}
                 ELSE ReadSlotOf(growth.arrays[growth._allocator_array],
                                 growth.overflow, tag) :
          growth' = [growth EXCEPT
              !.lookup = [tag |-> tag, value |-> v,
                          expected |-> growth.bound[tag], pc |-> growth.pc,
                          array |-> growth._allocator_array]]
    /\ UNCHANGED <<memory, arena, event, property, parse>>

NextGrowth ==
    \/ GrowthNewTag
    \/ \E tag \in 0 .. (MaxGrowthTags - 1), a \in RegAllocators : RegisterEnter(tag, a)
    \/ UpdateOldAa
    \/ UpdateNew
    \/ UpdateMemcpy
    \/ UpdateAaSize
    \/ RegisterStore
    \/ \E tag \in 0 .. (MaxGrowthTags - 1) : Lookup(tag)

SpecGrowth == Init /\ [][NextGrowth]_vars

\* ------------------------------------------------------------- properties
ArenaAllocators == Allocators \ {unknown_allocator}

\* The tag registered for the greatest registered base address that does
\* not exceed `address`.
NearestBase(address) ==
    LET below == {k \in DOMAIN _memory_map : k <= address}
    IN IF address = NullAddr \/ below = {} THEN INVALID
       ELSE _memory_map[Max(below)]

AfterAllocate ==
    /\ last.op = "get_owner"
    /\ last.end = "ok"
    /\ last.after # NoAllocation

\* C1, as stated: allocate(n, T) followed immediately by get_owner of the
\* address it returned yields T, for every registered tag T.
C1_GetOwnerReturnsAllocatingTag ==
    AfterAllocate => last.ret = last.after.tag

\* C1, amended: get_owner of the address allocate(n, T) just returned from
\* strategy S yields INVALID when S is the pass-through allocator, and
\* otherwise INVALID or the tag registered last for S; so it yields T only
\* if T is that last tag.
C1_GetOwnerReturnsLastRegistered ==
    AfterAllocate =>
        IF last.after.alloc = unknown_allocator
        THEN last.ret = INVALID
        ELSE last.ret \in {INVALID, registered[last.after.alloc]}

\* An Array allocation whose owner is reported as Callback.
C1_Witness ==
    /\ AfterAllocate
    /\ last.after.tag = BaseMemoryTags("Array")
    /\ last.after.alloc = general_allocator
    /\ last.ret = BaseMemoryTags("Callback")

\* C2: every free made by deallocate directly follows an owns of the same
\* strategy that reported TRUE; an owns that reports FALSE is the last thing
\* deallocate does: the process has exited, free was not called and no
\* allocator's bookkeeping has changed.
C2_OwnsBeforeFree ==
    [][LET c == last'.calls
       IN /\ \A i \in 1 .. Len(c) :
               (c[i].by = "deallocate" /\ c[i].f = "free") =>
                   /\ i > 1
                   /\ c[i - 1] = Ev("deallocate", "owns", c[i].a, TRUE, NoTag)
          /\ \A i \in 1 .. Len(c) :
               (c[i].by = "deallocate" /\ c[i].f = "owns" /\ ~c[i].b) =>
                   /\ i = Len(c)
                   /\ status' = "exited"
                   /\ UNCHANGED <<used, blocks, heap>>]_vars

\* A deallocate whose owns reported FALSE.
C2_Witness ==
    /\ last.op = "deallocate"
    /\ last.calls # <<>>
    /\ last.calls[Len(last.calls)].f = "owns"
    /\ ~last.calls[Len(last.calls)].b
    /\ status = "exited"

\* deallocate(p, T) on a live p, with the strategy read for T another one
\* than the strategy p is live in.
CrossTagFree ==
    /\ last'.op = "deallocate"
    /\ last'.calls # <<>>
    /\ LiveIn(last'.p) # NoAlloc
    /\ last'.calls[1].a # LiveIn(last'.p)

\* C3, as stated: a deallocate of a live p under a tag of another strategy,
\* Unknown included, exits the process and p is released nowhere.
C3_NoCrossTagFree ==
    [][CrossTagFree =>
          /\ status' = "exited"
          /\ Live(last'.p, heap', blocks', used') = LiveIn(last'.p)]_vars

\* C3, amended: when the other strategy is an arena the process exits after
\* the one owns call and p is released nowhere; when it is the pass-through
\* allocator the check passes and p goes on to its free, the global delete.
C3_ArenaMismatchExits ==
    [][CrossTagFree =>
          IF last'.calls[1].a = unknown_allocator
          THEN /\ last'.calls[1] =
                    Ev("deallocate", "owns", unknown_allocator, TRUE, NoTag)
               /\ Len(last'.calls) >= 2
               /\ last'.calls[2] =
                    Ev("deallocate", "free", unknown_allocator, FALSE, NoTag)
          ELSE /\ status' = "exited"
               /\ Len(last'.calls) = 1
               /\ Live(last'.p, heap', blocks', used') = LiveIn(last'.p)]_vars

\* A live block handed to deallocate under the tag of another arena: the
\* process has exited and the block is still live where it was.
C3_Witness ==
    /\ last.op = "deallocate"
    /\ status = "exited"
    /\ Len(last.calls) = 1
    /\ LiveIn(last.p) # NoAlloc
    /\ last.calls[1].a \in ArenaAllocators \ {LiveIn(last.p)}

\* C4: when register_tag grows the array, every other tag in use reads the
\* same strategy pointer from its slot as before the growth.
C4_GrowthKeepsMappings ==
    [][(last'.op = "register_tag" /\ _aa_size' # _aa_size) =>
          \A t \in TagsInUse \ {last'.tag} : ReadSlot(t)' = ReadSlot(t)]_vars

\* C5: the slot of every tag in use lies inside the allocated array and
\* holds a strategy.
C5_SlotsInBounds ==
    \A t \in TagsInUse :
        /\ t < Len(_allocator_array)
        /\ _allocator_array[t + 1] \in Allocators

\* C6: the ids of the tags constructed so far start at zero and strictly
\* increase, so no two tags share an id.
C6_TagIdsIncrease ==
    /\ tags[1] = 0
    /\ \A i, j \in 1 .. Len(tags) : i < j => tags[i] < tags[j]

\* C7: the default constructor never issues the id of INVALID.
C7_InvalidNeverIssued ==
    last.op = "new_tag" => last.tag # INVALID

\* C8: every get_first_before(a) yields the tag of the greatest registered
\* base address <= a, and INVALID when a is null or below every registered
\* base; in get_owner it comes before any owns.
C8_GetFirstBefore ==
    /\ \A i \in 1 .. Len(last.calls) :
          last.calls[i].f = "get_first_before" =>
              last.calls[i].t = NearestBase(last.p)
    /\ last.op = "get_owner" => last.calls[1].f = "get_first_before"

\* A lookup of an address that is no base address and resolves to the tag
\* of the base before it.
C8_Witness ==
    /\ last.op = "get_owner"
    /\ last.p \notin DOMAIN _memory_map
    /\ last.calls[1].t # INVALID
    /\ last.calls[1].t = NearestBase(last.p)

\* C9: get_owner(p) returns a tag other than INVALID only after the
\* strategy in that tag's slot reported owns(p); for a null p, and whenever
\* the strategy it asked does not own p, it returns INVALID.
C9_GetOwnerOnlyIfOwns ==
    last.op = "get_owner" =>
        /\ last.ret \notin {INVALID, NoTag} =>
              /\ Len(last.calls) = 2
              /\ last.calls[2].f = "owns"
              /\ last.calls[2].b
              /\ last.calls[2].a \in ReadSlot(last.ret)
              /\ owns(last.calls[2].a, last.p)
        /\ last.p = NullAddr => last.ret = INVALID
        /\ \A i \in 1 .. Len(last.calls) :
              (last.calls[i].f = "owns" /\ ~owns(last.calls[i].a, last.p)) =>
                  last.ret = INVALID

\* get_owner returned Temp for an address the Temp arena owns.
C9_Witness ==
    /\ last.op = "get_owner"
    /\ last.ret = BaseMemoryTags("Temp")
    /\ last.calls[2] = Ev("get_owner", "owns", temp_allocator, TRUE, NoTag)
    /\ InRegion(temp_allocator, last.p)

\* get_owner returned a tag for an address in the region of arena S.
ResolvedIn(S) ==
    /\ last.op = "get_owner"
    /\ last.end = "ok"
    /\ last.ret # INVALID
    /\ InRegion(S, last.p)

\* C10, as stated: for an address owned by a strategy that several tags are
\* registered with, as the general arena is from start-up on, get_owner
\* returns the tag registered first.
C10_FirstRegisteredWins ==
    \A S \in ArenaAllocators :
        (Cardinality(RegisteredWith(S)) > 1 /\ ResolvedIn(S)) =>
            last.ret = FirstRegistered(S)

\* C10, amended: it returns the tag registered last, never an earlier one.
C10_LastRegisteredWins ==
    \A S \in ArenaAllocators : ResolvedIn(S) => last.ret = registered[S]

\* An address of the general arena, registered first for Array and last for
\* Callback or a later tag, resolved to the last one.
C10_Witness ==
    /\ ResolvedIn(general_allocator)
    /\ FirstRegistered(general_allocator) # registered[general_allocator]
    /\ last.ret = registered[general_allocator]

\* The base addresses of the strategies registered so far.
RegisteredBases(reg) == {start(a) : a \in {x \in Allocators : reg[x] # NoTag}}

\* C11: while the index is alive, no step removes a key from it, and after
\* every step its keys are exactly the base addresses of the strategies
\* registered so far, one entry each.
C11_IndexKeys ==
    [][~_dying' =>
          /\ DOMAIN _memory_map \subseteq DOMAIN _memory_map'
          /\ DOMAIN _memory_map' = RegisteredBases(registered')]_vars

\* A user arena has just been registered and its base is a key next to the
\* three bases of start-up.
C11_Witness ==
    /\ last.op = "register_tag"
    /\ registered[user_allocator] # NoTag
    /\ DOMAIN _memory_map = {TempBase, GenBase, UserBase, AddrTop}

\* The inner calls of the last call from the i-th on, up to the next
\* get_first_before: those of one run of operator delete when the i-th is
\* the get_first_before its get_owner starts with.
RunOfDelete(i) ==
    LET c == last.calls
        later == {j \in (i + 1) .. Len(c) : c[j].f = "get_first_before"}
        stop == IF later = {} THEN Len(c) ELSE Min(later) - 1
    IN [j \in 1 .. (stop - i + 1) |-> c[i + j - 1]]

CountOf(run, f) == Cardinality({j \in 1 .. Len(run) : run[j].f = f})

\* What the get_owner at the head of a run returned: its tag, or NoTag
\* when it did not return.
OwnerFound(run) ==
    IF run[1].t = INVALID THEN INVALID
    ELSE IF Len(run) < 2 \/ run[2].by # "get_owner" THEN NoTag
    ELSE IF run[2].b THEN run[1].t ELSE INVALID

\* C12: in every run of operator delete, when get_owner found an owner,
\* deallocate is called once, with that owner, and the system free is not
\* called; when get_owner returned INVALID the system free is called once,
\* deallocate is not called and no strategy is asked to free.
C12_DeleteRoutes ==
    last.op \in {"operator_delete", "deallocate"} =>
        \A i \in 1 .. Len(last.calls) :
            last.calls[i].f = "get_first_before" =>
                LET run == RunOfDelete(i)
                    owner == OwnerFound(run)
                IN /\ owner \notin {INVALID, NoTag} =>
                        /\ CountOf(run, "deallocate") = 1
                        /\ CountOf(run, "sysfree") = 0
                        /\ \A j \in 1 .. Len(run) :
                              run[j].f = "deallocate" => run[j].t = owner
                   /\ owner = INVALID =>
                        /\ CountOf(run, "sysfree") = 1
                        /\ CountOf(run, "deallocate") = 0
                        /\ CountOf(run, "free") = 0

\* operator delete on an address of the general arena went to deallocate
\* and released it there.
C12_Witness ==
    /\ last.op = "operator_delete"
    /\ InRegion(general_allocator, last.p)
    /\ CountOf(last.calls, "deallocate") = 1
    /\ last.end = "freed"

\* deallocate(p, T) on a live p of T's own strategy, which returned.  It
\* changes neither the index nor the array, so get_owner(p) right after it
\* has the outcomes get_owner(p) has in the state it started from.
OwnFree ==
    /\ last'.op = "deallocate"
    /\ last'.calls # <<>>
    /\ LiveIn(last'.p) = last'.calls[1].a
    /\ status' = "running"
    /\ UNCHANGED <<_memory_map, _dying, _allocator_array, overflow>>

\* C13, as stated: after deallocate(p, T) on a pass-through or free-list
\* strategy, get_owner(p) returns INVALID.
C13_FreedIsUnowned ==
    [][(OwnFree /\ last'.calls[1].a \in {unknown_allocator, general_allocator}) =>
          \A g \in get_owner(last'.p) : g.end = "ok" => g.ret = INVALID]_vars

\* C13, amended: after deallocate(p, T) get_owner(p) returns INVALID when
\* T's strategy is the pass-through allocator; when it is an arena, stack or
\* free-list, the arena still owns p and get_owner(p), asking that arena,
\* returns the tag registered with it last.
C13_ArenaKeepsOwning ==
    [][OwnFree =>
          \A g \in get_owner(last'.p) :
              g.end = "ok" =>
                  IF last'.calls[1].a = unknown_allocator
                  THEN g.ret = INVALID
                  ELSE (Len(g.calls) = 2 /\ g.calls[2].a = last'.calls[1].a) =>
                           /\ g.ret # INVALID
                           /\ g.ret = registered[last'.calls[1].a]]_vars

\* A block of the general arena was released by deallocate and get_owner
\* of its address still finds Callback.
C13_Witness ==
    /\ last.op = "deallocate"
    /\ last.end = "freed"
    /\ last.calls[1].a = general_allocator
    /\ last.after.alloc = general_allocator
    /\ LiveIn(last.p) = NoAlloc
    /\ \E g \in get_owner(last.p) : g.ret = BaseMemoryTags("Callback")

\* The calls made on one strategy, of the calls the trace keeps.
CallsOn(kind) == SelectSeq(arena.trace, LAMBDA c : c.kind = kind)

\* used() before the i-th of the calls s.
UsedBefore(s, i) == s[i].before

Allocates(c, n) == c.op = "allocate" /\ c.n = n

\* C14: on a stack of 1024 bytes, an allocation of 600 bytes from an empty
\* stack succeeds and leaves used() at 600; an allocation of 500 bytes with
\* 600 in use fails and leaves used() at 600; an allocation of 500 bytes
\* right after a reset succeeds and leaves used() at 500.
C14_StackScenario ==
    LET s == CallsOn("stack")
    IN StackCapacity = 1024 =>
       \A i \in 1 .. Len(s) :
          /\ (Allocates(s[i], 600) /\ UsedBefore(s, i) = 0)
                => (s[i].ok /\ s[i].used = 600)
          /\ (Allocates(s[i], 500) /\ UsedBefore(s, i) = 600)
                => (~s[i].ok /\ s[i].p = NoAddr /\ s[i].used = 600)
          /\ (Allocates(s[i], 500) /\ i > 1 /\ s[i - 1].op = "reset")
                => (s[i].ok /\ s[i].used = 500)

\* The four calls of the scenario, in a row, from an empty stack.
C14_Witness ==
    LET s == CallsOn("stack")
    IN \E i \in 4 .. Len(s) :
          /\ Allocates(s[i - 3], 600) /\ UsedBefore(s, i - 3) = 0
          /\ s[i - 3].ok /\ s[i - 3].used = 600
          /\ Allocates(s[i - 2], 500) /\ ~s[i - 2].ok /\ s[i - 2].used = 600
          /\ s[i - 1].op = "reset"
          /\ Allocates(s[i], 500) /\ s[i].ok /\ s[i].used = 500

\* C15: a request on the stack for more bytes than capacity minus used()
\* fails, returns no address and leaves used() as it was.
C15_ExhaustionKeepsUsed ==
    LET s == CallsOn("stack")
    IN \A i \in 1 .. Len(s) :
          (/\ s[i].op = "allocate"
           /\ s[i].n > StackCapacity - UsedBefore(s, i))
             => (~s[i].ok /\ s[i].p = NoAddr /\ s[i].used = UsedBefore(s, i))

\* A request that does not fit what two earlier allocations left.
C15_Witness ==
    LET s == CallsOn("stack")
    IN \E i \in 3 .. Len(s) :
          /\ s[i - 2].op = "allocate" /\ s[i - 2].ok
          /\ s[i - 1].op = "allocate" /\ s[i - 1].ok
          /\ s[i].op = "allocate" /\ ~s[i].ok
          /\ s[i].n > StackCapacity - s[i - 1].used
          /\ s[i].used = s[i - 1].used /\ s[i].used > 0

\* The capacity of a strategy and what one allocation costs besides its size.
CapacityOf(kind) == IF kind = "stack" THEN StackCapacity ELSE FlCapacity
OverheadOf(kind) == IF kind = "stack" THEN 0 ELSE HeaderSize

\* C16, as stated: a reset leaves used() at 0, and an allocation of the
\* strategy's capacity right after it succeeds.
C16_FullCapacityAfterReset ==
    \A kind \in {"stack", "free_list"} :
       LET s == CallsOn(kind)
       IN \A i \in 1 .. Len(s) :
             /\ s[i].op = "reset" => s[i].used = 0
             /\ (i > 1 /\ s[i - 1].op = "reset"
                 /\ Allocates(s[i], CapacityOf(kind))) => s[i].ok

\* C16, amended: a reset leaves used() at 0; right after it an allocation
\* of the capacity less the strategy's cost per allocation succeeds (the
\* whole capacity on the stack, the capacity less one header on the free
\* list), and on the free list an allocation of the whole capacity fails.
C16_UsableCapacityAfterReset ==
    \A kind \in {"stack", "free_list"} :
       LET s == CallsOn(kind)
       IN \A i \in 1 .. Len(s) :
             /\ s[i].op = "reset" => s[i].used = 0
             /\ (i > 1 /\ s[i - 1].op = "reset"
                 /\ Allocates(s[i], CapacityOf(kind) - OverheadOf(kind)))
                   => s[i].ok
             /\ (i > 1 /\ s[i - 1].op = "reset" /\ kind = "free_list"
                 /\ Allocates(s[i], CapacityOf(kind))) => ~s[i].ok

\* A free list reset with a block allocated and another freed, then asked
\* for all it can give.
C16_Witness ==
    LET s == CallsOn("free_list")
    IN \E i \in 5 .. Len(s) :
          /\ s[i - 4].op = "allocate" /\ s[i - 4].ok
          /\ s[i - 3].op = "allocate" /\ s[i - 3].ok
          /\ s[i - 2].op = "free" /\ s[i - 2].used > 0
          /\ s[i - 1].op = "reset" /\ s[i - 1].used = 0
          /\ Allocates(s[i], FlCapacity - HeaderSize) /\ s[i].ok
          /\ s[i].used = FlCapacity

\* Calls i-4 .. i of s: two allocations of the same size, the second block
\* right behind the first, both freed, and a request for twice the size.
CoalescingScenario(s, i) ==
    /\ s[i - 4].op = "allocate" /\ s[i - 4].ok
    /\ s[i - 3].op = "allocate" /\ s[i - 3].ok
    /\ s[i - 3].n = s[i - 4].n
    /\ s[i - 3].p = s[i - 4].p + s[i - 4].n + HeaderSize
    /\ s[i - 2].op = "free" /\ s[i - 1].op = "free"
    /\ {s[i - 2].p, s[i - 1].p} = {s[i - 4].p, s[i - 3].p}
    /\ Allocates(s[i], 2 * s[i - 4].n)

\* C17: on the free list, after two adjacent blocks of one size have been
\* allocated and both freed, in either order, a request for their combined
\* size succeeds.
C17_Coalescing ==
    LET s == CallsOn("free_list")
    IN \A i \in 5 .. Len(s) : CoalescingScenario(s, i) => s[i].ok

\* The scenario with the first block freed first.
C17_Witness ==
    LET s == CallsOn("free_list")
    IN \E i \in 5 .. Len(s) :
          /\ CoalescingScenario(s, i)
          /\ s[i - 2].p = s[i - 4].p
          /\ s[i].ok /\ s[i].p = s[i - 4].p

\* The number of times fn occurs in the sequence s.
Occurrences(s, fn) == Cardinality({i \in 1 .. Len(s) : s[i] = fn})

\* C18: an unsubscribe that returns Successful leaves _callbacks one
\* callback shorter, one that returns Failed leaves it as it was and had no
\* subscription of the function to find; a later invoke calls the function
\* as often as it is still subscribed.
C18_UnsubscribeDetachesOne ==
    /\ (event.last.op = "unsubscribe" /\ event.end = "ok")
          => IF event.last.ret = "Successful"
             THEN Len(event._callbacks) = Len(event.last.before) - 1
             ELSE /\ event.last.ret = "Failed"
                  /\ event._callbacks = event.last.before
    /\ (event.last.op = "invoke" /\ event.end = "ok")
          => \A fn \in Functions :
                Occurrences([i \in 1 .. Len(event.last.calls) |->
                                 event.last.calls[i][1]], fn)
                   = Occurrences(event.subscribed, fn)

\* C19: an invoke that returns has called the subscribed functions, each
\* once per subscription and in the order of the subscriptions, with the
\* argument passed, and after at least one call its result is the value
\* the last call returned.
C19_InvokeCallsSubscribed ==
    (event.last.op = "invoke" /\ event.end = "ok")
       => /\ event.last.calls
               = [i \in 1 .. Len(event.subscribed) |->
                     <<event.subscribed[i], event.last.x>>]
          /\ event.last.calls # <<>>
               => event.last.result
                    = CallbackResult(event.subscribed[Len(event.subscribed)],
                                     event.last.x)

\* C20: on a Property constructed without a setter, every assignment throws
\* ImmutableException and leaves the attribute as it was, and the getter
\* returns the same value right before and right after the assignment.
C20_ImmutableWithoutSetter ==
    LET t == property.trace
    IN property.setter = "unimplemented" =>
       \A i \in 1 .. Len(t) :
          t[i].op = "assign" =>
             /\ t[i].threw = "ImmutableException"
             /\ t[i].after = t[i].before
             /\ (/\ 1 < i /\ i < Len(t)
                 /\ t[i - 1].op = "get" /\ t[i - 1].end = "ok"
                 /\ t[i + 1].op = "get" /\ t[i + 1].end = "ok")
                   => t[i + 1].value = t[i - 1].value

\* The string s consists of decimal digits only.
DigitsOnly(s) == \A i \in 1 .. Len(s) : s[i] \in Zero .. (Zero + 9)

\* The number a string of decimal digits denotes.
RECURSIVE DecimalValue(_)
DecimalValue(s) ==
    IF s = <<>> THEN 0
    ELSE 10 * DecimalValue(SubSeq(s, 1, Len(s) - 1)) + (s[Len(s)] - Zero)

\* C21: parse_as_uint8 and parse_as_uint16 fail on a string with a
\* character that is no decimal digit and on digits whose value exceeds the
\* maximum of the type, and return the value of digits within the range.
C21_UnsignedParse ==
    (parse.type \in TypeNames /\ ~IntTypes[parse.type].signed) =>
       IF DigitsOnly(parse.text)
          /\ DecimalValue(parse.text) <= IntTypes[parse.type].max
       THEN parse.result = Success(DecimalValue(parse.text))
       ELSE ~parse.result.ok

\* C30: parse_as_int8 and parse_as_int16 on the decimal text of v return v
\* for every v from the minimum to the maximum of the type, and fail for v
\* outside.
C30_SignedRoundTrip ==
    (parse.type \in TypeNames /\ IntTypes[parse.type].signed /\ parse.number) =>
       IF IntTypes[parse.type].min <= parse.v /\ parse.v <= IntTypes[parse.type].max
       THEN parse.result = Success(parse.v)
       ELSE ~parse.result.ok

\* C22: after register_tag(tag, a) returns, slot tag.id of the allocator array
\* holds &a, inside the allocated length of the array, and the ownership
\* index maps a.start() to tag.
C22_RegisterStoresInBounds ==
    (last.op = "register_tag" /\ last.end = "ok") =>
        /\ last.tag < Len(_allocator_array)
        /\ _allocator_array[last.tag + 1] = last.calls[1].a
        /\ last.p \in DOMAIN _memory_map
        /\ _memory_map[last.p] = last.tag

\* C23: while update_allocator_array runs the previous array is not released,
\* and a lookup of an already registered tag made by another thread during
\* the growth reads the strategy pointer the tag was registered with, from
\* the old array or from the new one, never a null or dangling slot.
C23_LookupDuringGrowth ==
    /\ growth.pc \in UpdatePcs => growth.old_aa \notin growth.freed
    /\ (growth.lookup.tag # NoTag /\ growth.lookup.pc \in UpdatePcs) =>
           growth.lookup.value = growth.lookup.expected

\* C24: MemorySystem::allocate(size, tag), and the tagged operator new that
\* forwards to it, calls allocate on the strategy registered for the tag and
\* on no other, returns what that call returned (nullptr on exhaustion,
\* without a fallback), and leaves every other strategy as it was.
C24_AllocateForwardsToOwnStrategy ==
    [][(last'.op = "allocate" /\ last'.end = "ok") =>
          LET a == last'.calls[1].a
          IN /\ Len(last'.calls) = 1
             /\ last'.calls[1].f = "allocate"
             /\ last'.tag \in DOMAIN directory
             /\ a = directory[last'.tag]
             /\ \E n \in Sizes : \E o \in AllocatorAllocate(a, n) :
                    /\ last'.ret = o.ret
                    /\ used' = o.used /\ blocks' = o.blocks /\ heap' = o.heap
             /\ \A b \in StackAllocators \ {a} : used'[b] = used[b]
             /\ a # general_allocator => blocks' = blocks
             /\ a # unknown_allocator => heap' = heap
             /\ last'.ret = NullAddr =>
                    (used' = used /\ blocks' = blocks /\ heap' = heap)]_vars

\* An allocate on an exhausted arena has returned nullptr.
C24_Witness ==
    /\ last.op = "allocate" /\ last.end = "ok"
    /\ last.ret = NullAddr
    /\ last.calls[1].a \in {temp_allocator, general_allocator}
    /\ heap = {}

\* C25: MemorySystem::print_usage(tag) is a pure read: it changes no
\* strategy's used bytes, blocks or capacity, nor the allocator array, nor
\* the ownership index.
C25_PrintUsagePureRead ==
    [][last'.op = "print_usage" =>
          UNCHANGED <<used, blocks, heap, _allocator_array, overflow, _aa_size,
                      _memory_map, _dying, id_count, tags, directory>>]_vars

\* print_usage has reported on an allocator that has bytes in use.
C25_Witness ==
    /\ last.op = "print_usage" /\ last.end = "ok"
    /\ last.calls[1].f = "used" /\ last.calls[1].b
    /\ AllocatorUsed(last.calls[1].a) > 0

\* C26: an assignment of one Property object to another does nothing: the
\* target keeps its getter, its setter and the value of its attribute, its
\* setter is not called (nothing is thrown), and the source is unchanged.
C26_CopyAssignDoesNothing ==
    [][(/\ property'.trace # property.trace
        /\ property'.trace # <<>>
        /\ property'.trace[Len(property'.trace)].op = "copy") =>
          /\ property'.trace[Len(property'.trace)].threw = "none"
          /\ property'.trace[Len(property'.trace)].after = property.attribute
          /\ property'.getter = property.getter
          /\ property'.setter = property.setter
          /\ property'.attribute = property.attribute
          /\ property'.other = property.other]_vars

\* A property with a setter has been assigned another property whose
\* attribute holds a different value.
C26_Witness ==
    /\ property.trace # <<>>
    /\ property.trace[Len(property.trace)].op = "copy"
    /\ property.setter = "SET"
    /\ property.other.constructed
    /\ property.other.attribute # property.attribute

\* C27: the global operator delete(p) terminates for every pointer p: the
\* chain operator delete -> get_owner -> deallocate -> CAllocator::free ->
\* operator delete does not re-enter itself without end.
C27_DeleteTerminates ==
    last.op = "operator_delete" => last.end # "overflow"

\* C27, amended: for every p other than the base address of the
\* pass-through allocator, (void*) uint64_max, operator delete(p) ends and
\* is entered once: get_owner returns no tag backed by the pass-through
\* allocator for such a p.
C27_DeleteTerminatesOffPassThroughBase ==
    /\ (last.op = "operator_delete" /\ last.p # start(unknown_allocator)) =>
           /\ last.end # "overflow"
           /\ CountOf(last.calls, "get_first_before") = 1
           /\ \A i \in 1 .. Len(last.calls) :
                 last.calls[i].f = "free" => last.calls[i].a # unknown_allocator
    /\ (/\ last.op = "get_owner" /\ last.p # start(unknown_allocator)
        /\ last.end = "ok" /\ last.ret # INVALID) =>
           last.calls[2].a # unknown_allocator

\* operator delete on an address of the system heap has ended in the system
\* free.
C27_Witness ==
    /\ last.op = "operator_delete"
    /\ last.p \in HeapAddrs
    /\ last.end = "sysfree"
    /\ status = "running"

\* C28: reset_memory(T) resets the strategy instance registered for T and
\* no other: an arena loses every outstanding allocation, whichever tag
\* sharing it made them, and the bytes in use and the allocations of every
\* other strategy instance stay as they were.
C28_ResetExactlyOwnStrategy ==
    [][(last'.op = "reset_memory" /\ last'.end = "ok") =>
          LET a == last'.calls[1].a
          IN /\ Len(last'.calls) = 1
             /\ last'.calls[1].f = "reset"
             /\ last'.tag \in DOMAIN directory
             /\ a = directory[last'.tag]
             /\ a \in StackAllocators => used'[a] = 0
             /\ a = general_allocator => blocks' = {}
             /\ \A b \in StackAllocators \ {a} : used'[b] = used[b]
             /\ a # general_allocator => blocks' = blocks
             /\ heap' = heap
             /\ UNCHANGED <<_allocator_array, overflow, _aa_size, _memory_map,
                            directory>>]_vars

\* The general arena, shared by Array .. Callback, has been reset through
\* one of its tags while the Temp arena has bytes in use.
C28_Witness ==
    /\ last.op = "reset_memory" /\ last.end = "ok"
    /\ last.tag \in {BaseMemoryTags("Array"), BaseMemoryTags("Callback")}
    /\ last.calls[1].a = general_allocator
    /\ blocks = {}
    /\ used[temp_allocator] > 0

\* What holds of the last call once _dying is set: every get_first_before in
\* it returned INVALID, get_owner returned INVALID without asking a
\* strategy, and operator delete ended in the system free.
LastCallSawDying ==
    /\ \A i \in 1 .. Len(last.calls) :
          last.calls[i].f = "get_first_before" => last.calls[i].t = INVALID
    /\ last.op = "get_owner" => (last.ret = INVALID /\ Len(last.calls) = 1)
    /\ last.op = "operator_delete" =>
          /\ last.end = "sysfree"
          /\ CountOf(last.calls, "sysfree") = 1
          /\ CountOf(last.calls, "deallocate") = 0
          /\ CountOf(last.calls, "free") = 0
          /\ CountOf(last.calls, "owns") = 0

\* C29: once the destructor of the ownership index has run, _dying is set
\* and stays set; from then on get_first_before and get_owner return INVALID
\* for every address, and every operator delete ends in the system free,
\* never in deallocate or in a strategy.
C29_DyingRoutesToSystemFree ==
    [][/\ last'.op = "~MemoryMap" => _dying'
       /\ _dying => _dying'
       /\ _dying' => LastCallSawDying']_vars

\* After the destructor, operator delete on an address of an arena that
\* still has a live block there went to the system free.
C29_Witness ==
    /\ _dying
    /\ last.op = "operator_delete"
    /\ InRegion(general_allocator, last.p)
    /\ \E b \in blocks : b[1] = last.p
    /\ last.end = "sysfree"

====
